---- MODULE Spec2Model ----
(***************************************************************************)
(* Model of the Google Sheets MCP server (src/main.py): the worksheet held *)
(* by the backend, the GoogleSheetsClient operations and the five tools.   *)
(*                                                                         *)
(* A Python string is a sequence of symbols.  A symbol is an indivisible   *)
(* piece of text ("id", "name", "=", " ", ...), so that the code's         *)
(* split(), split('=', 1), split(','), strip() and lower() are computed on *)
(* the text rather than assumed.                                           *)
(***************************************************************************)
EXTENDS Integers, Sequences, FiniteSets, TLC

VARIABLES
    sheet,       \* the worksheet's cell content at the backend: rows of cells
    tool,        \* the tool the client invoked ("none": no tool yet)
    pc,          \* position of the tool invocation
    result,      \* the value the tool returned
    escaped,     \* an exception left the tool instead of a return value
    contacted,   \* the invocation has made a call to the backend
    identifier,  \* update_sheet_record's argument `identifier`
    updates,     \* update_sheet_record's argument `updates`
    pending,     \* the (row, col, val) tuples not yet sent to update_cell
    issued,      \* the update_cell calls the backend acknowledged in this call
    round,       \* 1: first invocation, 2: the same invocation repeated
    fetched,     \* all_values as read by the current invocation
    before,      \* the sheet when the current invocation was made
    faulted,     \* a step of an invocation raised or was refused
    data_str,    \* add_data_to_sheet's argument `data_str`
    apc,         \* per caller: position in GoogleSheetsClient.add_data_to_sheet
    adata,       \* per caller: the argument `data`
    next_row,    \* per caller: the local next_row
    aresult,     \* per caller: what the method returned
    applog,      \* the worksheet.update calls the backend acknowledged, in order
    overwrote,   \* a worksheet.update replaced a row that held content
    calls,       \* the number of add_data_to_sheet calls made so far
    sheet0       \* the sheet before any invocation

updVars == <<identifier, updates, pending, issued, round, fetched, before>>
appVars == <<apc, adata, next_row, aresult, applog, overwrote, calls>>
toolVars == <<tool, pc, result, escaped, contacted, data_str>>
vars == <<sheet, sheet0, faulted, toolVars, updVars, appVars>>

(***************************************************************************)
(* Bounds of the model.                                                    *)
(***************************************************************************)
MaxRows == 2      \* data rows of an initial sheet
MaxTokens == 2    \* whitespace-separated tokens of an update expression
MaxAppends == 2   \* calls of GoogleSheetsClient.add_data_to_sheet
MaxPayload == 2   \* rows of one call's data

(***************************************************************************)
(* Strings.                                                                *)
(***************************************************************************)
Str(x) == <<x>>
Blank == <<>>

Whitespace == {" ", "\n"}

\* str.lower(), symbol by symbol
LowerSym(x) ==
    CASE x = "A" -> "a"
      [] x = "ID" -> "id"
      [] OTHER -> x

Lower(s) == [i \in 1..Len(s) |-> LowerSym(s[i])]

\* x in list
InList(x, list) == \E i \in 1..Len(list) : list[i] = x

\* list.index(x): the first position holding x, 0-based as in Python
IndexOf(x, list) ==
    (CHOOSE i \in 1..Len(list) :
        /\ list[i] = x
        /\ \A j \in 1..(i - 1) : list[j] # x) - 1

\* the position of the first symbol of s that is in seps, 0 when there is none
FirstPos(s, seps) ==
    IF \E i \in 1..Len(s) : s[i] \in seps
    THEN CHOOSE i \in 1..Len(s) :
            /\ s[i] \in seps
            /\ \A j \in 1..(i - 1) : s[j] \notin seps
    ELSE 0

\* str.split(): the maximal runs of non-whitespace symbols
RECURSIVE SplitWs(_, _, _)
SplitWs(s, cur, acc) ==
    IF s = <<>>
    THEN IF cur = <<>> THEN acc ELSE Append(acc, cur)
    ELSE IF Head(s) \in Whitespace
         THEN SplitWs(Tail(s), <<>>, IF cur = <<>> THEN acc ELSE Append(acc, cur))
         ELSE SplitWs(Tail(s), Append(cur, Head(s)), acc)

Split(s) == SplitWs(s, <<>>, <<>>)

\* str.split(sep): the pieces between separators, empty pieces kept
RECURSIVE SplitOn(_, _)
SplitOn(s, sep) ==
    LET p == FirstPos(s, {sep})
    IN  IF p = 0
        THEN <<s>>
        ELSE <<SubSeq(s, 1, p - 1)>> \o SplitOn(SubSeq(s, p + 1, Len(s)), sep)

\* update.split('=', 1) of a token that holds '='
SplitFirstEq(tok) ==
    LET p == FirstPos(tok, {"="})
    IN  [col |-> SubSeq(tok, 1, p - 1), val |-> SubSeq(tok, p + 1, Len(tok))]

(***************************************************************************)
(* The backend's worksheet.                                                *)
(***************************************************************************)
\* a row with no content
IsBlankRow(row) == \A j \in 1..Len(row) : row[j] = Blank

\* worksheet.get_all_values(): every row up to the last one holding content
RECURSIVE TrimRows(_)
TrimRows(rows) ==
    IF rows = <<>> \/ ~IsBlankRow(rows[Len(rows)])
    THEN rows
    ELSE TrimRows(SubSeq(rows, 1, Len(rows) - 1))

\* the longest row's length
MaxWidth(rows) ==
    IF rows = <<>> THEN 0
    ELSE LET ws == {Len(rows[i]) : i \in 1..Len(rows)}
         IN  CHOOSE w \in ws : \A v \in ws : v <= w

\* gspread pads every row of the answer to the longest row
FillGaps(rows) ==
    [i \in 1..Len(rows) |->
        [j \in 1..MaxWidth(rows) |-> IF j <= Len(rows[i]) THEN rows[i][j] ELSE Blank]]

GetAllValues(ws) == FillGaps(TrimRows(ws))

\* worksheet.update_cell(row, col, val), 1-based
UpdateCellAt(ws, row, col, val) ==
    [ws EXCEPT ![row] = [ws[row] EXCEPT ![col] = val]]

(***************************************************************************)
(* update_sheet_record: planning (src/main.py 374-418).                    *)
(***************************************************************************)
\* a returned value: its Python type (shape), what it says (kind) and the
\* texts it carries
Res(kind, idtype, arg, pairs) ==
    [kind |-> kind, idtype |-> idtype, arg |-> arg, pairs |-> pairs,
     shape |-> "str", lines |-> <<>>, count |-> 0]

Val(shape, kind) ==
    [kind |-> kind, idtype |-> Blank, arg |-> Blank, pairs |-> <<>>,
     shape |-> shape, lines |-> <<>>, count |-> 0]

ID == Str("id")
NAME == Str("name")

HasIdentifierColumn(headers) == InList(ID, headers) \/ InList(NAME, headers)

\* a variant that looks for name before id
IdentifierColNameFirst(headers) ==
    IF InList(NAME, headers) THEN IndexOf(NAME, headers) ELSE IndexOf(ID, headers)

\* identifier_col, 0-based (lines 382-386)
IdentifierCol(headers) ==
    IF InList(ID, headers) THEN IndexOf(ID, headers) ELSE IndexOf(NAME, headers)

\* identifier_type (lines 411, 424)
IdentifierType(headers) == IF InList(ID, headers) THEN ID ELSE NAME

\* update_dict[col] = val: a dict keeps the position of a key's first insertion
DictSet(dict, col, val) ==
    IF \E i \in 1..Len(dict) : dict[i].col = col
    THEN [i \in 1..Len(dict) |->
            IF dict[i].col = col THEN [col |-> col, val |-> val] ELSE dict[i]]
    ELSE Append(dict, [col |-> col, val |-> val])

\* a variant that skips a token naming an unknown column
RECURSIVE ParseUpdatesSkipUnknown(_, _, _)
ParseUpdatesSkipUnknown(headers, tokens, dict) ==
    IF tokens = <<>>
    THEN [col |-> Blank, dict |-> dict, unknown |-> FALSE]
    ELSE LET update == Head(tokens)
         IN  IF "=" \in {update[i] : i \in 1..Len(update)}
             THEN LET kv == SplitFirstEq(update)
                  IN  IF InList(kv.col, headers)
                      THEN ParseUpdatesSkipUnknown(headers, Tail(tokens),
                                                   DictSet(dict, kv.col, kv.val))
                      ELSE ParseUpdatesSkipUnknown(headers, Tail(tokens), dict)
             ELSE ParseUpdatesSkipUnknown(headers, Tail(tokens), dict)

\* the loop of lines 391-398 over the tokens still to read
RECURSIVE ParseUpdates(_, _, _)
ParseUpdates(headers, tokens, dict) ==
    IF tokens = <<>>
    THEN [col |-> Blank, dict |-> dict, unknown |-> FALSE]
    ELSE LET update == Head(tokens)
         IN  IF "=" \in {update[i] : i \in 1..Len(update)}
             THEN LET kv == SplitFirstEq(update)
                  IN  IF InList(kv.col, headers)
                      THEN ParseUpdates(headers, Tail(tokens),
                                        DictSet(dict, kv.col, kv.val))
                      ELSE [col |-> kv.col, dict |-> dict, unknown |-> TRUE]
             ELSE ParseUpdates(headers, Tail(tokens), dict)

\* a variant that compares without lowering
MatchExact(cell, ident) == cell = ident

\* a variant that keeps the last matching row
FindRowLast(all_values, identifier_col, ident) ==
    LET hits == {i \in 2..Len(all_values) :
                    Lower(all_values[i][identifier_col + 1]) = Lower(ident)}
    IN  IF hits = {} THEN 0
        ELSE CHOOSE i \in hits : \A j \in hits : i >= j

\* line 406: row[identifier_col].lower() == identifier.lower()
MatchLower(cell, ident) == Lower(cell) = Lower(ident)

\* lines 404-408: the sheet row (1-based, header = 1) of the first match, 0 if none
FindRow(all_values, identifier_col, ident) ==
    LET hits == {i \in 2..Len(all_values) :
                    MatchLower(all_values[i][identifier_col + 1], ident)}
    IN  IF hits = {} THEN 0
        ELSE CHOOSE i \in hits : \A j \in hits : i <= j

\* lines 415-418: one (row, col, val) per key of update_dict, in dict order
PrepareUpdates(headers, row_index, dict) ==
    [k \in 1..Len(dict) |->
        [col |-> IndexOf(dict[k].col, headers) + 1, val |-> dict[k].val,
         row |-> row_index]]

\* a variant that looks the record up before it parses the updates
PlanUpdateLookupFirst(all_values, ident, upd) ==
    IF all_values = <<>>
    THEN [res |-> Res("EmptySheet", Blank, Blank, <<>>), writes |-> <<>>]
    ELSE
    LET headers == all_values[1]
    IN  IF ~HasIdentifierColumn(headers)
        THEN [res |-> Res("NoIdentifierColumn", Blank, Blank, <<>>), writes |-> <<>>]
        ELSE
        LET row_index == FindRow(all_values, IdentifierCol(headers), ident)
            parsed == ParseUpdates(headers, Split(upd), <<>>)
        IN  IF row_index = 0
            THEN [res |-> Res("RecordNotFound", IdentifierType(headers),
                              ident, <<>>),
                  writes |-> <<>>]
            ELSE IF parsed.unknown
            THEN [res |-> Res("UnknownColumn", Blank, parsed.col, <<>>),
                  writes |-> <<>>]
            ELSE IF parsed.dict = <<>>
            THEN [res |-> Res("NoUpdates", Blank, Blank, <<>>), writes |-> <<>>]
            ELSE [res |-> Res("Success", IdentifierType(headers), ident,
                              parsed.dict),
                  writes |-> PrepareUpdates(headers, row_index, parsed.dict)]

\* lines 374-418: the outcome of planning and, when it succeeds, the writes
PlanUpdate(all_values, ident, upd) ==
    IF all_values = <<>>
    THEN [res |-> Res("EmptySheet", Blank, Blank, <<>>), writes |-> <<>>]
    ELSE
    LET headers == all_values[1]
    IN  IF ~HasIdentifierColumn(headers)
        THEN [res |-> Res("NoIdentifierColumn", Blank, Blank, <<>>), writes |-> <<>>]
        ELSE
        LET parsed == ParseUpdates(headers, Split(upd), <<>>)
        IN  IF parsed.unknown
            THEN [res |-> Res("UnknownColumn", Blank, parsed.col, <<>>),
                  writes |-> <<>>]
            ELSE IF parsed.dict = <<>>
            THEN [res |-> Res("NoUpdates", Blank, Blank, <<>>), writes |-> <<>>]
            ELSE
            LET row_index == FindRow(all_values, IdentifierCol(headers), ident)
            IN  IF row_index = 0
                THEN [res |-> Res("RecordNotFound", IdentifierType(headers),
                                  ident, <<>>),
                      writes |-> <<>>]
                ELSE [res |-> Res("Success", IdentifierType(headers), ident,
                                  parsed.dict),
                      writes |-> PrepareUpdates(headers, row_index, parsed.dict)]

PlanningErrors ==
    {"EmptySheet", "NoIdentifierColumn", "UnknownColumn", "NoUpdates",
     "RecordNotFound"}

(***************************************************************************)
(* The inputs of the model.                                                *)
(***************************************************************************)
Headers ==
    { <<Str("id"), Str("name")>>, <<Str("name"), Str("id")>>,
      <<Str("ID"), Str("name")>>, <<Str("sku"), Str("qty")>> }

DataRows ==
    { <<Str("1"), Str("a")>>, <<Str("a"), Str("1")>>, <<Str("A"), Str("A")>> }

Grids ==
    {<<>>} \cup
    UNION { { <<h>> \o rows : rows \in [1..n -> DataRows] } :
            h \in Headers, n \in 0..MaxRows }

Identifiers == { Str("1"), Str("a") }

Tokens ==
    { <<"id", "=", "2">>, <<"id", "=", "A">>, <<"name", "=", "a", "=", "1">>,
      <<"x">> }

RECURSIVE JoinTokens(_)
JoinTokens(ts) ==
    IF ts = <<>> THEN <<>>
    ELSE IF Len(ts) = 1 THEN ts[1]
    ELSE ts[1] \o <<" ">> \o JoinTokens(Tail(ts))

UpdateExprs ==
    UNION { { JoinTokens(ts) : ts \in [1..n -> Tokens] } : n \in 0..MaxTokens }

(***************************************************************************)
(* What a step that reaches the backend can come to.                       *)
(***************************************************************************)
\* GoogleSheetsClient(): lines 32-36 raise before the backend is reached
\* ("nocreds"), lines 52-82 re-raise what authorisation raised ("autherror")
CtorOutcomes == {"ok", "nocreds", "autherror"}

\* a gspread call: SpreadsheetNotFound, APIError or another exception
CallOutcomes == {"ok", "notfound", "apierror", "error"}

NoResult == Val("none", "none")

\* the tools' return annotations (lines 241, 250, 259, 326, 356)
DeclaredShape(t) ==
    CASE t = "list_spreadsheets" -> "list"
      [] t = "get_spreadsheet_info" -> "dict"
      [] OTHER -> "str"

\* a variant of the except clause that lets the exception through
ExceptReraise(t) == [escaped |-> TRUE, value |-> NoResult]

\* the tools' `except Exception as e` clauses (lines 246-247, 255-256, 265-266,
\* 351-353, 427-429): an {error} record or "Error: " + str(e)
Except(t) == [escaped |-> FALSE, value |-> Val(DeclaredShape(t), "Exception")]

(***************************************************************************)
(* update_sheet_record, one backend call per step (src/main.py 356-429).   *)
(***************************************************************************)
\* the tool is invoked
UpdateCall(ident, upd) ==
    /\ tool = "none"
    /\ pc = "idle"
    /\ tool' = "update_sheet_record"
    /\ pc' = "fetch"
    /\ identifier' = ident
    /\ updates' = upd
    /\ before' = sheet
    /\ UNCHANGED <<sheet, sheet0, result, escaped, contacted, data_str, pending,
                   issued, round, fetched, faulted, appVars>>

\* lines 367-418: the client is built, the grid is read and the update planned
UpdateFetch(ctor, call) ==
    /\ tool = "update_sheet_record"
    /\ pc = "fetch"
    /\ contacted' = (ctor # "nocreds")
    /\ IF ctor = "ok" /\ call = "ok"
       THEN LET all_values == GetAllValues(sheet)
                plan == PlanUpdate(all_values, identifier, updates)
            IN  /\ fetched' = all_values
                /\ IF plan.res.kind = "Success"
                   THEN /\ pc' = "apply"
                        /\ pending' = plan.writes
                        /\ result' = result
                   ELSE /\ pc' = "done"
                        /\ pending' = <<>>
                        /\ result' = plan.res
                /\ UNCHANGED <<faulted, escaped>>
       ELSE /\ pc' = "done"
            /\ result' = Except(tool).value
            /\ escaped' = Except(tool).escaped
            /\ faulted' = TRUE
            /\ UNCHANGED <<fetched, pending>>
    /\ UNCHANGED <<sheet, sheet0, tool, data_str, identifier, updates, issued,
                   round, before, appVars>>

\* a variant whose loop passes over a write the backend refused
UpdateCellSkipRefused(ok) ==
    /\ tool = "update_sheet_record"
    /\ pc = "apply"
    /\ pending # <<>>
    /\ LET w == Head(pending)
       IN  /\ sheet' = IF ok THEN UpdateCellAt(sheet, w.row, w.col, w.val)
                       ELSE sheet
           /\ issued' = IF ok THEN Append(issued, w) ELSE issued
           /\ pending' = Tail(pending)
           /\ IF Tail(pending) = <<>>
              THEN /\ pc' = "done"
                   /\ result' = PlanUpdate(fetched, identifier, updates).res
              ELSE UNCHANGED <<pc, result>>
           /\ UNCHANGED <<faulted, escaped>>
    /\ UNCHANGED <<sheet0, tool, contacted, data_str, identifier, updates, round,
                   fetched, before, appVars>>

\* lines 421-425: one update_cell call; after the last one the tool returns
UpdateCell(ok) ==
    /\ tool = "update_sheet_record"
    /\ pc = "apply"
    /\ pending # <<>>
    /\ IF ok
       THEN LET w == Head(pending)
            IN  /\ sheet' = UpdateCellAt(sheet, w.row, w.col, w.val)
                /\ issued' = Append(issued, w)
                /\ pending' = Tail(pending)
                /\ IF Tail(pending) = <<>>
                   THEN /\ pc' = "done"
                        /\ result' =
                             PlanUpdate(fetched, identifier, updates).res
                   ELSE UNCHANGED <<pc, result>>
                /\ UNCHANGED <<faulted, escaped>>
       ELSE /\ pc' = "done"
            /\ result' = Except(tool).value
            /\ escaped' = Except(tool).escaped
            /\ faulted' = TRUE
            /\ UNCHANGED <<sheet, issued, pending>>
    /\ UNCHANGED <<sheet0, tool, contacted, data_str, identifier, updates, round,
                   fetched, before, appVars>>

\* the same invocation is made a second time
UpdateAgain ==
    /\ tool = "update_sheet_record"
    /\ pc = "done"
    /\ round = 1
    /\ ~escaped
    /\ round' = 2
    /\ pc' = "fetch"
    /\ before' = sheet
    /\ issued' = <<>>
    /\ pending' = <<>>
    /\ result' = NoResult
    /\ contacted' = FALSE
    /\ UNCHANGED <<sheet, sheet0, tool, escaped, data_str, identifier, updates,
                   fetched, faulted, appVars>>

(***************************************************************************)
(* GoogleSheetsClient.add_data_to_sheet (src/main.py 222-238).             *)
(***************************************************************************)
Callers == {1, 2}

\* a data argument: a list of rows, or a list that is not one of rows
RowsData(rows) == [rows |-> rows, shape |-> "rows", len |-> Len(rows)]
FlatData(n) == [rows |-> <<>>, shape |-> "flat", len |-> n]
NoData == [rows |-> <<>>, shape |-> "none", len |-> 0]

\* a variant that forgets the + 1 once the sheet holds rows
NextRowLast(ws) ==
    IF GetAllValues(ws) = <<>> THEN 1 ELSE Len(GetAllValues(ws))

\* line 230: next_row = len(worksheet.get_all_values()) + 1
NextRow(ws) == Len(GetAllValues(ws)) + 1

\* a row of the range written over the row the sheet held there
Overlay(old, new) ==
    [j \in 1..(IF Len(old) > Len(new) THEN Len(old) ELSE Len(new)) |->
        IF j <= Len(new) THEN new[j] ELSE old[j]]

\* line 233: worksheet.update(f'A{next_row}', data) with data a list of rows
WriteRange(ws, r, rows) ==
    LET last == r + Len(rows) - 1
        n == IF Len(ws) > last THEN Len(ws) ELSE last
    IN  TrimRows([i \in 1..n |->
            IF i >= r /\ i <= last
            THEN Overlay(IF i <= Len(ws) THEN ws[i] ELSE <<>>, rows[i - r + 1])
            ELSE IF i <= Len(ws) THEN ws[i] ELSE <<>>])

\* the rows of the range that hold content before the write
HitsContent(ws, r, rows) ==
    \E i \in r..(r + Len(rows) - 1) : i <= Len(ws) /\ ~IsBlankRow(ws[i])

\* lines 346-350: what the tool makes of the method's answer
AddDataReturn(success, data) ==
    IF success
    THEN [Val("str", "Added") EXCEPT !.count = data.len]
    ELSE Val("str", "AddFailed")

\* the tool add_data_to_sheet returns once the method called for it has
ToolAfterAppend(c, success) ==
    IF tool = "add_data_to_sheet" /\ c = 1
    THEN /\ pc' = "done"
         /\ result' = AddDataReturn(success, adata[c])
    ELSE UNCHANGED <<pc, result>>

\* the method is called with a list of rows
AppendCall(c, rows) ==
    /\ tool = "none"
    /\ apc[c] \in {"idle", "done"}
    /\ calls < MaxAppends
    /\ calls' = calls + 1
    /\ apc' = [apc EXCEPT ![c] = "read"]
    /\ adata' = [adata EXCEPT ![c] = RowsData(rows)]
    /\ aresult' = [aresult EXCEPT ![c] = "none"]
    /\ UNCHANGED <<sheet, sheet0, faulted, toolVars, updVars, next_row, applog,
                   overwrote>>

\* lines 226-230: the worksheet is opened and its rows are counted
AppendRead(c, call) ==
    /\ apc[c] = "read"
    /\ IF call = "ok"
       THEN /\ next_row' = [next_row EXCEPT ![c] = NextRow(sheet)]
            /\ apc' = [apc EXCEPT ![c] = "write"]
            /\ UNCHANGED <<aresult, pc, result, faulted>>
       ELSE /\ apc' = [apc EXCEPT ![c] = "done"]
            /\ aresult' = [aresult EXCEPT ![c] = "False"]
            /\ faulted' = TRUE
            /\ ToolAfterAppend(c, FALSE)
            /\ UNCHANGED next_row
    /\ UNCHANGED <<sheet, sheet0, tool, escaped, contacted, data_str, updVars,
                   adata, applog, overwrote, calls>>

\* lines 233-238: the rows are written at next_row; the backend refuses data
\* that is not a list of rows
AppendWrite(c, ok) ==
    /\ apc[c] = "write"
    /\ apc' = [apc EXCEPT ![c] = "done"]
    /\ IF ok /\ adata[c].shape = "rows"
       THEN /\ sheet' = WriteRange(sheet, next_row[c], adata[c].rows)
            /\ overwrote' =
                 (overwrote \/ HitsContent(sheet, next_row[c], adata[c].rows))
            /\ applog' = Append(applog, [row |-> next_row[c],
                                         rows |-> adata[c].rows, caller |-> c])
            /\ aresult' = [aresult EXCEPT ![c] = "True"]
            /\ ToolAfterAppend(c, TRUE)
            /\ UNCHANGED faulted
       ELSE /\ aresult' = [aresult EXCEPT ![c] = "False"]
            /\ faulted' = TRUE
            /\ ToolAfterAppend(c, FALSE)
            /\ UNCHANGED <<sheet, overwrote, applog>>
    /\ UNCHANGED <<sheet0, tool, escaped, contacted, data_str, updVars, adata,
                   next_row, calls>>

(***************************************************************************)
(* The tool add_data_to_sheet (src/main.py 325-353).                       *)
(***************************************************************************)
\* str.strip(): leading and trailing whitespace removed
RECURSIVE Strip(_)
Strip(s) ==
    IF s = <<>> THEN s
    ELSE IF Head(s) \in Whitespace THEN Strip(Tail(s))
    ELSE IF s[Len(s)] \in Whitespace THEN Strip(SubSeq(s, 1, Len(s) - 1))
    ELSE s

\* lines 337, 341: [line.split(',') for line in data_str.strip().split('\n')]
CsvParse(text) ==
    LET lines == SplitOn(Strip(text), "\n")
    IN  [i \in 1..Len(lines) |->
            LET cells == SplitOn(lines[i], ",")
            IN  [j \in 1..Len(cells) |-> cells[j]]]

\* split() of a str raises nothing: the except clause of line 342 has nothing
\* to catch
CsvRaises(text) == FALSE

\* the payloads of the model, as Python reads them
NestedText == <<"[", "[", "1", "]", ",", "[", "2", ",", "3", "]", "]">>
FlatText == <<"[", "1", ",", "2", "]">>
TupleText == <<"1", ",", "2">>
CsvText == <<"1", ",", "2", "\n", "3">>
BrokenText == <<"[", "[", "1", "]", ",", "[", "2">>
EmptyText == <<>>

PayloadTexts == {NestedText, FlatText, TupleText, CsvText, BrokenText, EmptyText}

\* line 334: eval(data_str) of these payloads.  "[[1],[2,3]]" is a list of
\* rows, "[1,2]" a list of numbers, "1,2" a tuple; the others are no Python
\* expression and eval raises SyntaxError.
EvalPayload(text) ==
    CASE text = NestedText ->
           [data |-> RowsData(<< <<Str("1")>>, <<Str("2"), Str("3")>> >>),
            raised |-> FALSE, isList |-> TRUE]
      [] text = FlatText ->
           [data |-> FlatData(2), raised |-> FALSE, isList |-> TRUE]
      [] text = TupleText ->
           [data |-> NoData, raised |-> FALSE, isList |-> FALSE]
      [] OTHER ->
           [data |-> NoData, raised |-> TRUE, isList |-> FALSE]

\* lines 332-343: the list parse first, the CSV parse when it raises or does
\* not give a list, the format error when the CSV parse raises too
ParseData(text) ==
    LET ev == EvalPayload(text)
    IN  IF ~ev.raised /\ ev.isList
        THEN [data |-> ev.data, formatError |-> FALSE, viaCsv |-> FALSE]
        ELSE IF CsvRaises(text)
        THEN [data |-> NoData, formatError |-> TRUE, viaCsv |-> TRUE]
        ELSE [data |-> RowsData(CsvParse(text)), formatError |-> FALSE,
              viaCsv |-> TRUE]

\* the tool is invoked
AddDataCall(text) ==
    /\ tool = "none"
    /\ pc = "idle"
    /\ calls = 0
    /\ tool' = "add_data_to_sheet"
    /\ pc' = "parse"
    /\ data_str' = text
    /\ UNCHANGED <<sheet, sheet0, faulted, result, escaped, contacted, updVars,
                   appVars>>

\* lines 329-346: the client is built, the payload parsed, the method called
AddDataParse(ctor) ==
    /\ tool = "add_data_to_sheet"
    /\ pc = "parse"
    /\ contacted' = (ctor # "nocreds")
    /\ IF ctor # "ok"
       THEN /\ pc' = "done"
            /\ result' = Except(tool).value
            /\ escaped' = Except(tool).escaped
            /\ faulted' = TRUE
            /\ UNCHANGED <<apc, adata>>
       ELSE LET parsed == ParseData(data_str)
            IN  IF parsed.formatError
                THEN /\ pc' = "done"
                     /\ result' = Val("str", "FormatError")
                     /\ UNCHANGED <<escaped, faulted, apc, adata>>
                ELSE /\ pc' = "client"
                     /\ apc' = [apc EXCEPT ![1] = "read"]
                     /\ adata' = [adata EXCEPT ![1] = parsed.data]
                     /\ UNCHANGED <<result, escaped, faulted>>
    /\ UNCHANGED <<sheet, sheet0, tool, data_str, updVars, next_row, aresult,
                   applog, overwrote, calls>>

(***************************************************************************)
(* list_spreadsheets, get_spreadsheet_info, get_sheet_content              *)
(* (src/main.py 84-205, 240-266).                                          *)
(***************************************************************************)
\* lines 84-108: the list of {title, id, url}, or [{error}] from the method's
\* own except clauses
GetAllSpreadsheets(call) ==
    IF call = "ok" THEN Val("list", "Spreadsheets") ELSE Val("list", "ErrorRecord")

\* lines 113-153: the info record, or {error}
GetSpreadsheetInfoOf(call) ==
    IF call = "ok" THEN Val("dict", "Info") ELSE Val("dict", "ErrorRecord")

\* lines 155-182: {title, data}, or {error}
GetSheetData(call, ws) ==
    IF call = "ok"
    THEN [data |-> GetAllValues(ws), error |-> FALSE]
    ELSE [data |-> <<>>, error |-> TRUE]

\* the number of characters of a symbol
CharLen(x) ==
    CASE x \in {"id", "ID"} -> 2
      [] x \in {"sku", "qty", " | "} -> 3
      [] x = "name" -> 4
      [] OTHER -> 1

RECURSIVE StrLen(_)
StrLen(s) == IF s = <<>> THEN 0 ELSE CharLen(Head(s)) + StrLen(Tail(s))

\* " | ".join(cells)
RECURSIVE JoinBar(_)
JoinBar(cells) ==
    IF cells = <<>> THEN <<>>
    ELSE IF Len(cells) = 1 THEN cells[1]
    ELSE cells[1] \o <<" | ">> \o JoinBar(Tail(cells))

\* lines 196-205: the header, the dashes, the data rows
Table(rows) ==
    <<JoinBar(rows[1]), [k \in 1..StrLen(JoinBar(rows[1])) |-> "-"]>>
        \o [i \in 1..(Len(rows) - 1) |-> JoinBar(rows[i + 1])]

\* lines 184-205: format_sheet_data
FormatSheetData(d) ==
    IF d.error THEN Val("str", "ErrorText")
    ELSE IF d.data = <<>> THEN Val("str", "NoData")
    ELSE LET rows == d.data
         IN  IF rows = <<>> THEN Val("str", "SheetEmpty")
             ELSE [Val("str", "Table") EXCEPT !.lines = Table(rows)]

\* a tool that makes its calls and returns within one step
SimpleTool(t, ctor, call, value) ==
    /\ tool = "none"
    /\ pc = "idle"
    /\ calls = 0
    /\ tool' = t
    /\ pc' = "done"
    /\ contacted' = (ctor # "nocreds")
    /\ faulted' = (ctor # "ok" \/ call # "ok")
    /\ IF ctor = "ok"
       THEN result' = value /\ UNCHANGED escaped
       ELSE result' = Except(t).value /\ escaped' = Except(t).escaped
    /\ UNCHANGED <<sheet, sheet0, data_str, updVars, appVars>>

\* lines 240-247
ListSpreadsheets(ctor, call) ==
    SimpleTool("list_spreadsheets", ctor, call, GetAllSpreadsheets(call))

\* lines 249-256
GetSpreadsheetInfo(ctor, call) ==
    SimpleTool("get_spreadsheet_info", ctor, call, GetSpreadsheetInfoOf(call))

\* lines 258-266
GetSheetContent(ctor, call) ==
    SimpleTool("get_sheet_content", ctor, call,
               FormatSheetData(GetSheetData(call, sheet)))

(***************************************************************************)
(* Specifications.                                                         *)
(***************************************************************************)
\* a sheet the append calls start from
AppendSheets ==
    { <<>>, << <<Str("id"), Str("name")>> >>,
      << <<Str("id"), Str("name")>>, <<Str("1"), Str("a")>> >>,
      << <<Str("id"), Str("name")>>, <<Blank, Blank>>, <<Str("1"), Str("a")>> >> }

PayloadRows == { <<Str("x")>>, <<Str("y"), Str("z")>>, <<Blank>> }

Payloads == UNION { [1..n -> PayloadRows] : n \in 1..MaxPayload }

Idle ==
    /\ sheet0 = sheet
    /\ tool = "none"
    /\ pc = "idle"
    /\ result = NoResult
    /\ escaped = FALSE
    /\ contacted = FALSE
    /\ identifier = Blank
    /\ updates = Blank
    /\ pending = <<>>
    /\ issued = <<>>
    /\ round = 1
    /\ fetched = <<>>
    /\ before = <<>>
    /\ faulted = FALSE
    /\ data_str = Blank
    /\ apc = [c \in Callers |-> "idle"]
    /\ adata = [c \in Callers |-> NoData]
    /\ next_row = [c \in Callers |-> 0]
    /\ aresult = [c \in Callers |-> "none"]
    /\ applog = <<>>
    /\ overwrote = FALSE
    /\ calls = 0

Init == sheet \in Grids /\ Idle

InitAppend == sheet \in AppendSheets /\ Idle

\* update_sheet_record, invoked and invoked again
Next ==
    \/ \E ident \in Identifiers, upd \in UpdateExprs : UpdateCall(ident, upd)
    \/ \E ctor \in CtorOutcomes, call \in CallOutcomes : UpdateFetch(ctor, call)
    \/ \E ok \in BOOLEAN : UpdateCell(ok)
    \/ UpdateAgain

Spec == Init /\ [][Next]_vars

\* one invocation of any of the five tools
NextTools ==
    \/ \E ctor \in CtorOutcomes, call \in CallOutcomes : ListSpreadsheets(ctor, call)
    \/ \E ctor \in CtorOutcomes, call \in CallOutcomes : GetSpreadsheetInfo(ctor, call)
    \/ \E ctor \in CtorOutcomes, call \in CallOutcomes : GetSheetContent(ctor, call)
    \/ \E text \in PayloadTexts : AddDataCall(text)
    \/ \E ctor \in CtorOutcomes : AddDataParse(ctor)
    \/ \E call \in CallOutcomes : AppendRead(1, call)
    \/ \E ok \in BOOLEAN : AppendWrite(1, ok)
    \/ \E ident \in Identifiers, upd \in UpdateExprs : UpdateCall(ident, upd)
    \/ \E ctor \in CtorOutcomes, call \in CallOutcomes : UpdateFetch(ctor, call)
    \/ \E ok \in BOOLEAN : UpdateCell(ok)

SpecTools == Init /\ [][NextTools]_vars

\* GoogleSheetsClient.add_data_to_sheet called again and again by one caller
NextAppend ==
    \/ \E rows \in Payloads : AppendCall(1, rows)
    \/ \E call \in CallOutcomes : AppendRead(1, call)
    \/ \E ok \in BOOLEAN : AppendWrite(1, ok)

SpecAppend == InitAppend /\ [][NextAppend]_vars

\* the calls of two callers, interleaved at the backend calls
NextRace ==
    \/ \E c \in Callers, rows \in Payloads : AppendCall(c, rows)
    \/ \E c \in Callers, call \in CallOutcomes : AppendRead(c, call)
    \/ \E c \in Callers, ok \in BOOLEAN : AppendWrite(c, ok)

SpecRace == InitAppend /\ [][NextRace]_vars

(***************************************************************************)
(* What the claims speak of, stated on the arguments of the invocation and *)
(* on the sheet as it was when the invocation was made.                    *)
(***************************************************************************)
Done == pc = "done"

\* the tokens of the update expression that have the form column=value
EqTokens == SelectSeq(Split(updates), LAMBDA t : \E i \in 1..Len(t) : t[i] = "=")

ColOf(t) == SubSeq(t, 1, FirstPos(t, {"="}) - 1)
ValOf(t) == SubSeq(t, FirstPos(t, {"="}) + 1, Len(t))

HeaderOf(grid) == grid[1]

\* the tokens naming a column the header does not hold
UnknownTokens(grid) ==
    {k \in 1..Len(EqTokens) :
        \A j \in 1..Len(HeaderOf(grid)) : HeaderOf(grid)[j] # ColOf(EqTokens[k])}

\* the header position (1-based) of the column literally named `name`
ColumnNamed(grid, name) ==
    CHOOSE j \in 1..Len(HeaderOf(grid)) :
        /\ HeaderOf(grid)[j] = name
        /\ \A i \in 1..(j - 1) : HeaderOf(grid)[i] # name

HeaderHas(grid, name) == \E j \in 1..Len(HeaderOf(grid)) : HeaderOf(grid)[j] = name

\* the identifier column the specification prescribes: id, failing that name
SpecIdColumn(grid) ==
    IF HeaderHas(grid, <<"id">>) THEN ColumnNamed(grid, <<"id">>)
    ELSE ColumnNamed(grid, <<"name">>)

\* the data rows whose identifier cell equals the identifier, ignoring case
MatchingRows(grid) ==
    {i \in 2..Len(grid) : Lower(grid[i][SpecIdColumn(grid)]) = Lower(identifier)}

FirstMatch(grid) == CHOOSE i \in MatchingRows(grid) : \A j \in MatchingRows(grid) : i <= j

\* the value the expression gives a column: that of the last token naming it
LastValue(col) ==
    LET ks == {k \in 1..Len(EqTokens) : ColOf(EqTokens[k]) = col}
    IN  ValOf(EqTokens[CHOOSE k \in ks : \A m \in ks : m <= k])

NamedColumns == {ColOf(EqTokens[k]) : k \in 1..Len(EqTokens)}

\* the writes the specification prescribes for a successful invocation
ExpectedWrites(grid) ==
    {[col |-> ColumnNamed(grid, c), val |-> LastValue(c), row |-> FirstMatch(grid)] :
        c \in NamedColumns}

IssuedSet == {issued[k] : k \in 1..Len(issued)}

\* grid with the writes of ws applied
WithWrites(grid, ws) ==
    [i \in 1..Len(grid) |->
        [j \in 1..Len(grid[i]) |->
            IF \E w \in ws : w.row = i /\ w.col = j
            THEN (CHOOSE w \in ws : w.row = i /\ w.col = j).val
            ELSE grid[i][j]]]

\* C1: update_sheet_record never partially applies an update: when a
\* column=value token names a column missing from the header the invocation
\* returns an error with no cell written, and every planning error is returned
\* with no cell write issued and the sheet as it was.
C1_NoPartialUpdate ==
    Done =>
        /\ (before # <<>> /\ UnknownTokens(before) # {}) =>
              /\ result.kind \in {"NoIdentifierColumn", "UnknownColumn", "Exception"}
              /\ issued = <<>>
              /\ sheet = before
        /\ result.kind \in PlanningErrors => issued = <<>> /\ sheet = before

\* an unknown column after a valid one, for a record that exists
C1_Witness ==
    /\ Done
    /\ result.kind = "UnknownColumn"
    /\ updates = <<"name", "=", "a", "=", "1", " ", "id", "=", "2">>
    /\ MatchingRows(before) # {}

\* C2: on success the writes issued are exactly one per named column, at the
\* 1-based row of the first data row whose identifier cell equals the
\* identifier ignoring case and at the header position of the column; every
\* other cell of the sheet, later rows with the same identifier included, is
\* as it was.
C2_ExactWrites ==
    (Done /\ result.kind = "Success") =>
        /\ IssuedSet = ExpectedWrites(before)
        /\ Len(issued) = Cardinality(NamedColumns)
        /\ sheet = WithWrites(before, ExpectedWrites(before))

\* grid [[id,name],[a,1],[A,A]], identifier a: the one write of name=a=1 is
\* (row 2, col 2, "a=1") and the later row, whose identifier is A, is untouched
C2_Witness ==
    /\ Done
    /\ result.kind = "Success"
    /\ before = << <<Str("id"), Str("name")>>, <<Str("a"), Str("1")>>,
                   <<Str("A"), Str("A")>> >>
    /\ identifier = Str("a")
    /\ issued = << [col |-> 2, val |-> <<"a", "=", "1">>, row |-> 2] >>
    /\ sheet[3] = before[3]

\* C3 as stated: the same invocation made twice in a row leaves the sheet as
\* one invocation left it, for every sheet, identifier and update expression.
C3_IdempotentAsStated ==
    (Done /\ round = 2 /\ ~faulted) => sheet = before

\* the update names the identifier column and gives it a value that no longer
\* equals the identifier
RewritesIdentifier(grid) ==
    /\ HeaderOf(grid)[SpecIdColumn(grid)] \in NamedColumns
    /\ Lower(LastValue(HeaderOf(grid)[SpecIdColumn(grid)])) # Lower(identifier)

\* C3 amended: the second invocation changes nothing provided the update does
\* not give the identifier column a value different from the identifier
\* (ignoring case), or no other row carries the identifier.
C3_Idempotent ==
    (/\ Done /\ round = 2 /\ ~faulted
     /\ \/ result.kind # "Success"
        \/ ~RewritesIdentifier(sheet0)
        \/ Cardinality(MatchingRows(sheet0)) <= 1)
    => sheet = before

\* the second invocation succeeded after the first one rewrote the identifier
\* (to a value equal to it ignoring case) in a sheet with two such rows
C3_Witness ==
    /\ Done /\ round = 2 /\ ~faulted
    /\ result.kind = "Success"
    /\ Cardinality(MatchingRows(sheet0)) = 2
    /\ updates = <<"id", "=", "A">>
    /\ identifier = Str("a")
    /\ sheet0 # before

\* C5: the identifier column is the one literally named id when the header has
\* one, otherwise the one literally named name; a non-empty grid with neither
\* fails with NoIdentifierColumn whatever the identifier and the update
\* expression, and no cell is written.
C5_IdentifierColumn ==
    (Done /\ result.kind # "Exception" /\ before # <<>>) =>
        IF ~HeaderHas(before, <<"id">>) /\ ~HeaderHas(before, <<"name">>)
        THEN result.kind = "NoIdentifierColumn" /\ issued = <<>> /\ sheet = before
        ELSE /\ result.kind # "NoIdentifierColumn"
             /\ result.kind \in {"Success", "RecordNotFound"} =>
                  result.idtype =
                     IF HeaderHas(before, <<"id">>) THEN <<"id">> ELSE <<"name">>
             /\ result.kind = "RecordNotFound" => MatchingRows(before) = {}
             /\ result.kind = "Success" =>
                  \A k \in 1..Len(issued) :
                     /\ issued[k].row \in MatchingRows(before)
                     /\ \A i \in MatchingRows(before) : issued[k].row <= i

\* a header with both columns, name first: the row is found by the id column
C5_Witness ==
    /\ Done
    /\ result.kind = "Success"
    /\ HeaderOf(before) = <<Str("name"), Str("id")>>
    /\ \E i \in 2..Len(before) :
          /\ Lower(before[i][1]) = Lower(identifier)
          /\ i \notin MatchingRows(before)

\* the outcome the specification's order of checks prescribes
SpecOutcome(grid) ==
    IF grid = <<>> THEN "EmptySheet"
    ELSE IF ~HeaderHas(grid, <<"id">>) /\ ~HeaderHas(grid, <<"name">>)
         THEN "NoIdentifierColumn"
    ELSE IF UnknownTokens(grid) # {} THEN "UnknownColumn"
    ELSE IF Len(EqTokens) = 0 THEN "NoUpdates"
    ELSE IF MatchingRows(grid) = {} THEN "RecordNotFound"
    ELSE "Success"

FirstUnknown(grid) ==
    EqTokens[CHOOSE k \in UnknownTokens(grid) : \A m \in UnknownTokens(grid) : k <= m]

\* C9: the failure conditions are checked in the order EmptySheet,
\* NoIdentifierColumn, UnknownColumn (of the first token naming a column the
\* header lacks), NoUpdates, RecordNotFound, and the first that holds decides
\* the result; tokens without '=' cause no error by themselves.
C9_ErrorOrder ==
    (Done /\ result.kind # "Exception") =>
        /\ result.kind = SpecOutcome(before)
        /\ result.kind = "UnknownColumn" => result.arg = ColOf(FirstUnknown(before))

\* an unknown column is reported although the identifier matches no row
C9_Witness ==
    /\ Done
    /\ result.kind = "UnknownColumn"
    /\ before # <<>>
    /\ MatchingRows(before) = {}
    /\ Len(EqTokens) = 2

\* the sheet an append-only log holds after the first k acknowledged writes
RECURSIVE AppendedUpTo(_)
AppendedUpTo(k) ==
    IF k = 0 THEN sheet0 ELSE AppendedUpTo(k - 1) \o applog[k].rows

\* no row of an acknowledged write is blank
NonBlankLog ==
    \A k \in 1..Len(applog) :
        \A i \in 1..Len(applog[k].rows) : ~IsBlankRow(applog[k].rows[i])

\* C4: successive successful add_data_to_sheet calls with non-blank rows
\* modify no row that held content, each call's rows land directly after the
\* last row in call order and payload order, and the insertion row of each
\* call is the row count at that call plus one.
C4_AppendOnly ==
    NonBlankLog =>
        /\ ~overwrote
        /\ sheet = AppendedUpTo(Len(applog))
        /\ \A k \in 1..Len(applog) : applog[k].row = Len(AppendedUpTo(k - 1)) + 1

\* two one-row calls on an empty sheet: row 1, then row 2
C4_Witness ==
    /\ sheet0 = <<>>
    /\ Len(applog) = 2
    /\ applog[1].row = 1 /\ applog[1].rows = << <<Str("x")>> >>
    /\ applog[2].row = 2 /\ applog[2].rows = << <<Str("y"), Str("z")>> >>
    /\ sheet = << <<Str("x")>>, <<Str("y"), Str("z")>> >>

\* C6: get_sheet_content on a sheet whose grid has zero rows returns
\* "Sheet is empty".
C6_SheetIsEmpty ==
    (/\ tool = "get_sheet_content" /\ Done
     /\ ~faulted
     /\ GetAllValues(sheet) = <<>>)
    => result.kind = "SheetEmpty"

\* the payload is a list but not one of rows, so that the CSV parse is not
\* tried on it: it is well-formed in neither form
Malformed(text) ==
    /\ ~EvalPayload(text).raised
    /\ EvalPayload(text).isList
    /\ EvalPayload(text).data.shape # "rows"

\* C7: a payload that is well-formed in neither form makes add_data_to_sheet,
\* once its client is built, return the format error without a call to the
\* backend.
C7_FormatError ==
    (/\ tool = "add_data_to_sheet" /\ Done
     /\ result.kind # "Exception"
     /\ Malformed(data_str)) =>
        /\ result.kind = "FormatError"
        /\ ~contacted
        /\ apc[1] = "idle"

ErrorKinds == {"Exception", "ErrorRecord", "ErrorText", "AddFailed"}

\* C8: each of the five tools returns a value of its declared shape whatever
\* step fails; a failure becomes an {error} record or an "Error: ..." string
\* and no exception leaves the tool.
C8_AlwaysReturns ==
    /\ ~escaped
    /\ Done =>
          /\ result.shape = DeclaredShape(tool)
          /\ result.kind # "none"
          /\ faulted => result.kind \in ErrorKinds

\* update_sheet_record: the second update_cell call raised after the first
\* one was acknowledged
C8_Witness ==
    /\ tool = "update_sheet_record"
    /\ Done
    /\ faulted
    /\ Len(issued) = 1
    /\ pending # <<>>
    /\ result.kind = "Exception"

\* the rows the callers passed hold content
PayloadsNonBlank ==
    \A c \in Callers :
        \A i \in 1..Len(adata[c].rows) : ~IsBlankRow(adata[c].rows[i])

\* C10: in every interleaving of two add_data_to_sheet calls no call
\* overwrites a row that holds content when it writes, and after both have
\* succeeded the sheet holds the rows of both.
C10_NoLostRows ==
    (NonBlankLog /\ PayloadsNonBlank) =>
        /\ ~overwrote
        /\ (\A c \in Callers : apc[c] \in {"idle", "done"}) =>
              Len(sheet) = Len(AppendedUpTo(Len(applog)))

\* the columns the update expression names, each once, in the order in which
\* the expression first names them
RECURSIVE DistinctCols(_, _)
DistinctCols(ts, seen) ==
    IF ts = <<>> THEN <<>>
    ELSE IF ColOf(Head(ts)) \in seen THEN DistinctCols(Tail(ts), seen)
    ELSE <<ColOf(Head(ts))>> \o DistinctCols(Tail(ts), seen \cup {ColOf(Head(ts))})

ParsedColumns == DistinctCols(EqTokens, {})

\* the planned cell writes, in the order the columns were parsed
PlannedWrites(grid) ==
    [k \in 1..Len(ParsedColumns) |->
        [col |-> ColumnNamed(grid, ParsedColumns[k]),
         val |-> LastValue(ParsedColumns[k]),
         row |-> FirstMatch(grid)]]

\* the cells in which two grids of the same extent differ
CellsChanged(a, b) ==
    {ij \in (1..Len(a)) \X (1..MaxWidth(a)) : a[ij[1]][ij[2]] # b[ij[1]][ij[2]]}

\* at every moment the acknowledged writes are the first planned ones, in
\* order, and the sheet holds exactly them; success means all of them; an
\* invocation that ends with planned writes left over answers with the error
\* string and the sheet keeps the writes acknowledged until then
AcknowledgedWrites ==
    /\ (issued # <<>> \/ pc = "apply") =>
          LET planned == PlannedWrites(before)
          IN  /\ SpecOutcome(before) = "Success"
              /\ Len(issued) <= Len(planned)
              /\ issued = SubSeq(planned, 1, Len(issued))
              /\ sheet = WithWrites(before, IssuedSet)
    /\ (Done /\ result.kind = "Success") =>
          /\ issued = PlannedWrites(before)
          /\ pending = <<>>
    /\ (Done /\ result.kind # "Success" /\ issued # <<>>) =>
          /\ issued # PlannedWrites(before)
          /\ result.kind = "Exception"
          /\ result.shape = "str"
          /\ sheet = WithWrites(before, IssuedSet)
    /\ (Done /\ pending # <<>>) =>
          /\ result.kind = "Exception"
          /\ result.shape = "str"
    /\ (Done /\ result.kind # "Success" /\ issued = <<>>) => sheet = before

\* a backend call of the apply phase acknowledges one write, the next planned
\* one, and changes no cell but that one
OneWritePerCall ==
    (issued' # issued /\ round' = round) =>
        /\ issued' = Append(issued, PlannedWrites(before)[Len(issued) + 1])
        /\ pending' = Tail(pending)
        /\ Len(sheet') = Len(sheet)
        /\ CellsChanged(sheet, sheet') \subseteq
              {<<Head(pending).row, Head(pending).col>>}

\* C11: update_sheet_record returns its success message only if every planned
\* cell write was acknowledged by the backend, the writes being issued one per
\* backend call in the order the columns were parsed; when a write fails
\* part-way through the apply phase the invocation returns the "Error: ..."
\* string, never the success message, and the writes acknowledged before the
\* failure remain in the sheet.
C11_SuccessOnlyIfAcknowledged ==
    []AcknowledgedWrites /\ [][OneWritePerCall]_vars

\* header [id, name], update "name=a=1 id=2": the write of name (column 2) was
\* acknowledged, the write of id was refused, and the sheet keeps the first
C11_Witness ==
    /\ Done
    /\ result.kind = "Exception"
    /\ Len(issued) = 1
    /\ HeaderOf(before) = <<Str("id"), Str("name")>>
    /\ updates = <<"name", "=", "a", "=", "1", " ", "id", "=", "2">>
    /\ issued[1].col = 2
    /\ Len(pending) = 1
    /\ pending[1].col = 1
    /\ sheet # before
    /\ sheet = WithWrites(before, IssuedSet)

====
